---- MODULE Spec2Model ----
(***************************************************************************)
(* Model of the ksystemstats "scripts" plugin (scripts.cpp / scripts.h):   *)
(* one Script object per executable, each owning a QProcess and two        *)
(* coroutines (initSensors, updateSensors) resumed from the                *)
(* readyReadStandardOutput slot.                                           *)
(*                                                                         *)
(* Text is modelled as a sequence of atoms: an atom is either the tab      *)
(* character or a non-empty run of non-blank characters.                   *)
(***************************************************************************)
EXTENDS Integers, Sequences, FiniteSets, TLC

TAB == "\t"

\* ------------------------------------------------------------------ bounds
MaxRestarts == 1
MaxScans == 2
MaxStray == 1

\* ------------------------------------------------------------ text helpers
RECURSIVE trimLeft(_)
trimLeft(s) == IF s # <<>> /\ Head(s) = TAB THEN trimLeft(Tail(s)) ELSE s

RECURSIVE trimRight(_)
trimRight(s) ==
    IF s # <<>> /\ s[Len(s)] = TAB THEN trimRight(SubSeq(s, 1, Len(s) - 1)) ELSE s

trimmed(s) == trimRight(trimLeft(s))

RECURSIVE split(_)
split(s) ==
    IF \E i \in 1..Len(s) : s[i] = TAB
    THEN LET i == CHOOSE k \in 1..Len(s) :
                      s[k] = TAB /\ \A j \in 1..(k - 1) : s[j] # TAB
         IN  <<SubSeq(s, 1, i - 1)>> \o split(SubSeq(s, i + 1, Len(s)))
    ELSE <<s>>

\* ------------------------------------------- sensorParameters (QMap) keys
ParamInit ==
    << "initial_value", "name", "short_name", "prefix", "description",
       "min", "max", "unit", "variant_type", "value" >>

\* UTF-16 code units of each key, for QString::operator<
CodeUnits ==
    [ initial_value |-> <<105,110,105,116,105,97,108,95,118,97,108,117,101>>,
      name          |-> <<110,97,109,101>>,
      short_name    |-> <<115,104,111,114,116,95,110,97,109,101>>,
      prefix        |-> <<112,114,101,102,105,120>>,
      description   |-> <<100,101,115,99,114,105,112,116,105,111,110>>,
      min           |-> <<109,105,110>>,
      max           |-> <<109,97,120>>,
      unit          |-> <<117,110,105,116>>,
      variant_type  |-> <<118,97,114,105,97,110,116,95,116,121,112,101>>,
      value         |-> <<118,97,108,117,101>> ]

RECURSIVE LexLess(_, _)
LexLess(a, b) ==
    IF a = <<>> THEN b # <<>>
    ELSE IF b = <<>> THEN FALSE
    ELSE IF a[1] # b[1] THEN a[1] < b[1]
    ELSE LexLess(Tail(a), Tail(b))

RECURSIVE InsertKey(_, _)
InsertKey(sorted, k) ==
    IF sorted = <<>> THEN <<k>>
    ELSE IF LexLess(CodeUnits[k], CodeUnits[Head(sorted)]) THEN <<k>> \o sorted
    ELSE <<Head(sorted)>> \o InsertKey(Tail(sorted), k)

RECURSIVE InsertAll(_, _)
InsertAll(sorted, ks) ==
    IF ks = <<>> THEN sorted ELSE InsertAll(InsertKey(sorted, Head(ks)), Tail(ks))

keysInsertionOrder(init) == init

\* QMap<QString,QString>::keys(): the keys in ascending order
keys(init) == InsertAll(<<>>, init)

sensorParameters0 == [k \in {ParamInit[i] : i \in 1..Len(ParamInit)} |-> <<>>]

\* ----------------------------------------------------------- QVariant
QVariantOfString(str) == [t |-> "QString", s |-> str, n |-> 0]

NumVal == [x \in {"7", "42", "99"} |-> IF x = "7" THEN 7 ELSE IF x = "42" THEN 42 ELSE 99]

toIntOk(str) == Len(str) = 1 /\ str[1] \in DOMAIN NumVal

nameToType(str) ==
    IF str = <<"int">> THEN "int"
    ELSE IF str = <<"QString">> THEN "QString"
    ELSE "Invalid"

\* QVariant::convert: <<converted value, success>>
convert(v, target) ==
    IF v.t = target THEN <<v, TRUE>>
    ELSE IF target = "int" /\ v.t = "QString"
         THEN IF toIntOk(v.s)
              THEN <<[t |-> "int", s |-> <<>>, n |-> NumVal[v.s[1]]], TRUE>>
              ELSE <<[t |-> "int", s |-> <<>>, n |-> 0], FALSE>>
    ELSE <<[t |-> "Invalid", s |-> <<>>, n |-> 0], FALSE>>

\* ------------------------------------------------------- the child script
ListReplies == { <<>>, <<"cpu">>, <<"cpu", TAB, "mem">> }

\* an executable of the script directory: one that speaks the protocol and
\* lists the given sensors, or one that never reads or prints anything
Responsive(listing) == [listing |-> listing, answers |-> TRUE]
Mute == [listing |-> <<>>, answers |-> FALSE]
ValueReplies == { <<"42">>, <<"oops">> }

VariantTypeOf(sensorName) == IF sensorName = "cpu" THEN <<"int">> ELSE <<>>

\* the line a script prints for one request line; v is its current reading
Answer(line, listing, v) ==
    IF line = <<"?">> THEN listing
    ELSE IF line # <<>> /\ line[Len(line)] = "value" THEN v
    ELSE IF line # <<>> /\ line[Len(line)] = "variant_type" THEN VariantTypeOf(line[1])
    ELSE <<>>

\* --------------------------------------------------------- Script object
NoTag == [by |-> "none", ep |-> 0, line |-> <<>>]

NoInitH ==
    [pc |-> "none", sensorNames |-> <<>>, ni |-> 0, pi |-> 0,
     sensorParameters |-> sensorParameters0]

NoUpdateH == [pc |-> "none", idx |-> 0, end |-> 0, dangling |-> FALSE]

\* Script::Script: members of scripts.h:72-81 after the constructor ran
\* (the process has been started and not yet reported Running); the fields
\* after "history" record what happened and are never read by the program.
NewScript(exe) ==
    [ state |-> "Starting", stdin |-> <<>>, stdout |-> <<>>,
      partial |-> <<>>, partialSeen |-> FALSE, readBuffer |-> <<>>,
      listing |-> exe.listing, answers |-> exe.answers,
      sensors |-> <<>>, scriptReply |-> <<>>,
      initSensorAct |-> FALSE, updateSensorsAct |-> FALSE,
      initSensorsH |-> NoInitH, updateSensorsH |-> NoUpdateH,
      crashed |-> FALSE,
      \* history
      epoch |-> 0, outstanding |-> 0,
      initLog |-> <<>>, initReply |-> <<>>, initDelivered |-> 0,
      sensorsAtInit |-> 0, initDone |-> FALSE,
      pollLog |-> <<>>, pollDone |-> FALSE,
      initReq |-> NoTag, updReq |-> NoTag,
      lastDelivery |-> [to |-> "none", tag |-> NoTag, expect |-> NoTag],
      abandoned |-> FALSE, hasRun |-> FALSE,
      strays |-> 0, dropped |-> {} ]

\* Request::request: write "request0[\trequest1]\n" to the process
request(r, by, request0, request1) ==
    LET line == request0 \o (IF request1 = <<>> THEN <<>> ELSE <<TAB>> \o request1)
        tag  == [by |-> by, ep |-> r.epoch, line |-> line]
    IN  [r EXCEPT
           !.stdin = IF r.state \in {"Starting", "Running"}
                     THEN Append(@, [line |-> line, tag |-> tag]) ELSE @,
           !.outstanding = @ + 1,
           !.initLog = IF by = "init" THEN Append(@, line) ELSE @,
           !.pollLog = IF by = "upd" THEN Append(@, line) ELSE @,
           !.initReq = IF by = "init" THEN tag ELSE @,
           !.updReq = IF by = "upd" THEN tag ELSE @]

\* body of the sensor loop of initSensors after the parameter loop
makeSensor(sensorName, params) ==
    LET variant_type == IF params["variant_type"] # <<>>
                        THEN nameToType(params["variant_type"]) ELSE "QString"
    IN  [ id |-> sensorName,
          name |-> IF params["name"] = <<>> THEN sensorName ELSE params["name"],
          variantType |-> IF params["variant_type"] # <<>> THEN variant_type ELSE "unset",
          value |-> convert(QVariantOfString(params["value"]), variant_type)[1] ]

\* initSensors from the head of the sensor loop for sensorNames[ni]
initNextSensor(r, sensorNames, ni, params) ==
    LET K == keys(ParamInit) IN
    IF ni <= Len(sensorNames)
    THEN [request(r, "init", sensorNames[ni], <<K[1]>>) EXCEPT
            !.initSensorsH = [pc |-> "param", sensorNames |-> sensorNames,
                              ni |-> ni, pi |-> 1, sensorParameters |-> params]]
    ELSE [r EXCEPT !.initSensorAct = FALSE, !.initSensorsH = NoInitH,
                   !.initDone = TRUE]

\* Script::initSensors up to its first suspension
initSensors(r) ==
    LET r1 == [r EXCEPT !.initSensorAct = TRUE,
                        !.initLog = <<>>, !.initReply = <<>>, !.initDelivered = 0,
                        !.sensorsAtInit = Len(r.sensors), !.initDone = FALSE,
                        !.pollDone = FALSE]
    IN  [request(r1, "init", <<"?">>, <<>>) EXCEPT
            !.initSensorsH = [pc |-> "list", sensorNames |-> <<>>, ni |-> 0,
                              pi |-> 0, sensorParameters |-> sensorParameters0]]

\* initSensorsH(): resume the suspended initSensors with scriptReply
resumeInit(r) ==
    LET h == r.initSensorsH
        K == keys(ParamInit)
    IN  IF h.pc = "list"
        THEN initNextSensor([r EXCEPT !.initReply = <<r.scriptReply>>],
                            split(r.scriptReply), 1, h.sensorParameters)
        ELSE LET params == [h.sensorParameters EXCEPT ![K[h.pi]] = r.scriptReply] IN
             IF h.pi < Len(K)
             THEN [request(r, "init", h.sensorNames[h.ni], <<K[h.pi + 1]>>) EXCEPT
                     !.initSensorsH = [h EXCEPT !.pi = h.pi + 1,
                                                !.sensorParameters = params]]
             ELSE LET r1 == [r EXCEPT
                               !.sensors = Append(@, makeSensor(h.sensorNames[h.ni], params)),
                               !.updateSensorsH =
                                   IF @.pc = "none" THEN @ ELSE [@ EXCEPT !.dangling = TRUE]]
                  IN  initNextSensor(r1, h.sensorNames, h.ni + 1, params)

\* Script::updateSensors up to its first suspension
updateSensors(r) ==
    LET r1 == [r EXCEPT !.updateSensorsAct = TRUE, !.pollLog = <<>>, !.pollDone = FALSE]
    IN  IF r1.sensors = <<>>
        THEN [r1 EXCEPT !.updateSensorsAct = FALSE, !.pollDone = TRUE]
        ELSE [request(r1, "upd", r1.sensors[1].id, <<"value">>) EXCEPT
                !.updateSensorsH = [pc |-> "value", idx |-> 1,
                                    end |-> Len(r1.sensors), dangling |-> FALSE]]

\* updateSensorsH(): resume the suspended updateSensors with scriptReply.
\* When the list was appended to while the loop was suspended its iterators
\* may be invalid: ub is what the read through them does.
resumeUpdate(r, ub) ==
    LET h == r.updateSensorsH IN
    IF h.dangling /\ ub = "crash"
    THEN [r EXCEPT !.crashed = TRUE]
    ELSE LET value == convert(QVariantOfString(r.scriptReply), r.sensors[h.idx].value.t)[1]
             r1 == [r EXCEPT !.sensors[h.idx].value = value]
         IN  IF h.idx < h.end
             THEN [request(r1, "upd", r1.sensors[h.idx + 1].id, <<"value">>) EXCEPT
                     !.updateSensorsH = [h EXCEPT !.idx = h.idx + 1]]
             ELSE [r1 EXCEPT !.updateSensorsAct = FALSE, !.updateSensorsH = NoUpdateH,
                             !.pollDone = TRUE]

update_ignoresInit(r) ==
    IF ~r.updateSensorsAct THEN updateSensors(r) ELSE r

\* Script::update
update(r) ==
    IF ~r.updateSensorsAct /\ ~r.initSensorAct THEN updateSensors(r) ELSE r

delivered(r, to, ln) ==
    [r EXCEPT !.outstanding = @ - 1, !.abandoned = FALSE,
              !.initDelivered = IF to = "init" THEN @ + 1 ELSE @,
              !.lastDelivery = [to |-> to, tag |-> ln.tag,
                                expect |-> IF to = "init" THEN r.initReq ELSE r.updReq]]

dispatch_pollsWhenIdle(r1, ln, ub) ==
    IF r1.initSensorAct THEN resumeInit(delivered(r1, "init", ln))
    ELSE IF r1.updateSensorsAct THEN resumeUpdate(delivered(r1, "upd", ln), ub)
    ELSE updateSensors(r1)

\* the branch of readyReadStandardOutput on the activity flags: resume the
\* discovery, else resume the poll, else do nothing with the line
dispatch(r1, ln, ub) ==
    IF r1.initSensorAct THEN resumeInit(delivered(r1, "init", ln))
    ELSE IF r1.updateSensorsAct THEN resumeUpdate(delivered(r1, "upd", ln), ub)
    ELSE [r1 EXCEPT !.dropped = IF ln.tag.by = "stray"
                                   THEN @ \cup {ln.tag.ep} ELSE @]

\* Script::readyReadStandardOutput: consume every complete buffered line
RECURSIVE readyReadStandardOutput(_, _)
readyReadStandardOutput(r, ub) ==
    IF r.readBuffer = <<>> \/ r.crashed THEN r
    ELSE LET ln == Head(r.readBuffer)
             r1 == [r EXCEPT !.readBuffer = Tail(@), !.scriptReply = trimmed(ln.text)]
             r2 == dispatch(r1, ln, ub)
         IN  readyReadStandardOutput(r2, ub)

\* QProcess moves what the pipe holds into its read buffer and emits
\* readyReadStandardOutput
processReadyRead(r, ub) ==
    readyReadStandardOutput(
        [r EXCEPT !.readBuffer = @ \o r.stdout, !.stdout = <<>>,
                  !.partialSeen = (r.partial # <<>>)], ub)

\* Script::stateChanged
stateChanged(r, newState) ==
    IF newState = "Running"
    THEN initSensors([r EXCEPT !.state = newState, !.hasRun = TRUE])
    ELSE [r EXCEPT !.state = newState]

CanRead(r) == r.stdout # <<>> \/ (r.partial # <<>> /\ ~r.partialSeen)

processDied_resetsFlags(r, ub) ==
    [stateChanged(IF CanRead(r) THEN processReadyRead(r, ub) ELSE r, "NotRunning")
        EXCEPT !.stdin = <<>>, !.initSensorAct = FALSE, !.updateSensorsAct = FALSE]

\* QProcess::close and the death of the process read what is left in the
\* pipe and emit readyReadStandardOutput before stateChanged(NotRunning)
processDied(r, ub) ==
    [stateChanged(IF CanRead(r) THEN processReadyRead(r, ub) ELSE r, "NotRunning")
        EXCEPT !.stdin = <<>>]

restart_keepsRoutine(r, ub) ==
    LET closed == [processDied(r, ub) EXCEPT
                     !.stdout = <<>>, !.partial = <<>>,
                     !.partialSeen = FALSE, !.readBuffer = <<>>]
    IN  [stateChanged(closed, "Starting") EXCEPT
           !.epoch = @ + 1, !.outstanding = 0, !.abandoned = closed.initSensorAct,
           !.hasRun = FALSE]

\* Script::restart
restart(r, ub) ==
    LET closed == [processDied(r, ub) EXCEPT
                     !.stdout = <<>>, !.partial = <<>>,
                     !.partialSeen = FALSE, !.readBuffer = <<>>]
        cleared == [closed EXCEPT
                      !.initSensorsH = IF closed.initSensorAct THEN NoInitH ELSE @,
                      !.updateSensorsH = IF closed.updateSensorsAct THEN NoUpdateH ELSE @,
                      !.initSensorAct = FALSE, !.updateSensorsAct = FALSE]
    IN  IF closed.crashed THEN closed
        ELSE [stateChanged(cleared, "Starting") EXCEPT
                !.epoch = @ + 1, !.outstanding = 0, !.abandoned = closed.initSensorAct,
                !.hasRun = FALSE, !.strays = 0, !.dropped = {},
                !.initLog = <<>>, !.initReply = <<>>, !.initDelivered = 0,
                !.sensorsAtInit = 0, !.initDone = FALSE,
                !.pollLog = <<>>, !.pollDone = FALSE,
                !.initReq = NoTag, !.updReq = NoTag,
                !.lastDelivery = [to |-> "none", tag |-> NoTag, expect |-> NoTag]]

\* QProcess::waitForStarted: <<script afterwards, return value>>; oc is what
\* the operating system does with a process that is still starting
waitForStarted(r, oc) ==
    IF r.state = "Starting"
    THEN IF oc = "started" THEN <<stateChanged(r, "Running"), TRUE>>
         ELSE IF oc = "failed" THEN <<stateChanged(r, "NotRunning"), FALSE>>
         ELSE <<r, FALSE>>
    ELSE <<r, r.state = "Running">>

waitInitStart_noLoop(r, oc) ==
    LET w == waitForStarted(r, oc) IN
    IF ~w[2] THEN <<w[1], "false">> ELSE <<w[1], "true">>

\* Script::waitInit up to the first test of its loop, scripts.cpp:109-113
waitInitStart(r, oc) ==
    LET w == waitForStarted(r, oc) IN
    IF ~w[2] THEN <<w[1], "false">>
    ELSE IF w[1].initSensorAct THEN <<w[1], "again">>
    ELSE <<w[1], "true">>

waitInitLoop_once(r, ub) ==
    IF ~r.initSensorAct THEN <<r, "true">>
    ELSE IF ~CanRead(r) THEN <<r, "false">>
    ELSE <<readyReadStandardOutput(processReadyRead(r, ub), ub), "true">>

\* one pass of the loop of Script::waitInit, scripts.cpp:113-118:
\* <<script afterwards, "again" | "true" | "false">>
waitInitLoop(r, ub) ==
    IF ~r.initSensorAct THEN <<r, "true">>
    ELSE IF ~CanRead(r) THEN <<r, "false">>
    ELSE LET r1 == readyReadStandardOutput(processReadyRead(r, ub), ub)
         IN  <<r1, IF r1.initSensorAct THEN "again" ELSE "true">>

\* ------------------------------------------------------------------ state
VARIABLES
    scripts,    \* ScriptsPlugin::scripts: identity -> Script
    main,       \* where the GUI thread is: in the event loop or inside waitInit
    scans,      \* number of directoryChanged notifications handled
    last        \* history: the handler or event that made the last step

vars == <<scripts, main, scans, last>>

Ids == {"a", "b"}
UB == {"stale", "crash"}

InLoop == [pc |-> "loop", s |-> "", todo |-> {}, ctx |-> "", split |-> FALSE, ok |-> {}]

Did(op, s) ==
    [op |-> op, s |-> s, res |-> "", fail |-> "", split |-> FALSE, ok |-> {}, found |-> {}]

Registered == DOMAIN scripts
Crashed == \E s \in Registered : scripts[s].crashed
Idle(r) == ~r.initSensorAct /\ ~r.updateSensorsAct

UBOf(r) == IF r.updateSensorsH.dangling THEN UB ELSE {"stale"}

\* ------------------------------------------------- handlers of one Script
Update(s) ==
    /\ main.pc = "loop" /\ ~Crashed /\ s \in Registered
    /\ scripts' = [scripts EXCEPT ![s] = update(@)]
    /\ last' = Did(IF Idle(scripts[s]) THEN "update" ELSE "updateBusy", s)
    /\ UNCHANGED <<main, scans>>

Restart(s) ==
    /\ main.pc = "loop" /\ ~Crashed /\ s \in Registered
    /\ scripts[s].epoch < MaxRestarts
    /\ \E ub \in UBOf(scripts[s]) : scripts' = [scripts EXCEPT ![s] = restart(@, ub)]
    /\ last' = Did("restart", s)
    /\ UNCHANGED <<main, scans>>

\* the event loop delivers stateChanged(Running)
ProcStarted(s) ==
    /\ main.pc = "loop" /\ ~Crashed /\ s \in Registered
    /\ scripts[s].state = "Starting"
    /\ scripts' = [scripts EXCEPT ![s] = stateChanged(@, "Running")]
    /\ last' = Did("running", s)
    /\ UNCHANGED <<main, scans>>

\* the process could not be executed: stateChanged(NotRunning)
ProcFailed(s) ==
    /\ main.pc = "loop" /\ ~Crashed /\ s \in Registered
    /\ scripts[s].state = "Starting"
    /\ scripts' = [scripts EXCEPT ![s] = [stateChanged(@, "NotRunning") EXCEPT !.stdin = <<>>]]
    /\ last' = Did("failed", s)
    /\ UNCHANGED <<main, scans>>

\* the event loop delivers readyReadStandardOutput
ReadyRead(s) ==
    /\ main.pc = "loop" /\ ~Crashed /\ s \in Registered
    /\ CanRead(scripts[s])
    /\ \E ub \in UBOf(scripts[s]) :
          scripts' = [scripts EXCEPT ![s] = processReadyRead(@, ub)]
    /\ last' = Did("readyRead", s)
    /\ UNCHANGED <<main, scans>>

\* ----------------------------------------------------- the child process
IsValueRequest(line) == line # <<>> /\ line[Len(line)] = "value"

ChildChoices(r) ==
    IF IsValueRequest(Head(r.stdin).line) THEN ValueReplies ELSE {<<>>}

ChildReplyTo(r, v) ==
    [text |-> Answer(Head(r.stdin).line, r.listing, v), tag |-> Head(r.stdin).tag]

\* the script reads one request line and prints its whole reply line
ChildReply(s) ==
    /\ ~Crashed /\ s \in Registered
    /\ scripts[s].state = "Running" /\ scripts[s].stdin # <<>> /\ scripts[s].partial = <<>>
    /\ scripts[s].answers
    /\ \E v \in ChildChoices(scripts[s]) :
          scripts' = [scripts EXCEPT ![s] =
                        [@ EXCEPT !.stdout = Append(@, ChildReplyTo(scripts[s], v)),
                                  !.stdin = Tail(@)]]
    /\ last' = Did("childReply", s)
    /\ UNCHANGED <<main, scans>>

\* the script prints the beginning of its reply line, without the newline
ChildReplyPart(s) ==
    /\ ~Crashed /\ s \in Registered
    /\ scripts[s].state = "Running" /\ scripts[s].stdin # <<>> /\ scripts[s].partial = <<>>
    /\ scripts[s].answers
    /\ \E v \in ChildChoices(scripts[s]) :
          scripts' = [scripts EXCEPT ![s] =
                        [@ EXCEPT !.partial = <<ChildReplyTo(scripts[s], v)>>,
                                  !.stdin = Tail(@)]]
    /\ last' = Did("childPart", s)
    /\ UNCHANGED <<main, scans>>

\* the script prints the rest of the line it began
ChildReplyRest(s) ==
    /\ ~Crashed /\ s \in Registered
    /\ scripts[s].partial # <<>>
    /\ scripts' = [scripts EXCEPT ![s] =
                     [@ EXCEPT !.stdout = Append(@, scripts[s].partial[1]),
                               !.partial = <<>>, !.partialSeen = FALSE]]
    /\ last' = Did("childRest", s)
    /\ UNCHANGED <<main, scans>>

\* the script prints a line nobody asked for
ChildStray(s) ==
    /\ ~Crashed /\ s \in Registered
    /\ scripts[s].state = "Running" /\ scripts[s].partial = <<>>
    /\ scripts[s].answers
    /\ scripts[s].strays < MaxStray
    /\ scripts' = [scripts EXCEPT ![s] =
                     [@ EXCEPT !.strays = @ + 1,
                               !.stdout = Append(@, [text |-> <<"stray">>,
                                                     tag |-> [by |-> "stray", ep |-> scripts[s].strays + 1,
                                                              line |-> <<>>]])]]
    /\ last' = Did("childStray", s)
    /\ UNCHANGED <<main, scans>>

\* the script exits or is killed: stateChanged(NotRunning)
ChildExit(s) ==
    /\ ~Crashed /\ s \in Registered
    /\ main.pc = "loop" \/ main.s = s
    /\ scripts[s].state = "Running" /\ scripts[s].partial = <<>>
    /\ \E ub \in UBOf(scripts[s]) : scripts' = [scripts EXCEPT ![s] = processDied(@, ub)]
    /\ last' = Did("childExit", s)
    /\ UNCHANGED <<main, scans>>

\* ------------------------------------------------------ Script::waitInit
AfterWait(todo, ctx, ok) ==
    IF todo = {} THEN InLoop
    ELSE [pc |-> "waitAll", s |-> "", todo |-> todo, ctx |-> ctx, split |-> FALSE, ok |-> ok]

Returned(todo, ctx) ==
    IF todo = {} /\ ctx = "directoryChanged" THEN "directoryChangedReturned"
    ELSE IF todo = {} /\ ctx = "ctor" THEN "ctorReturned"
    ELSE "waitInitReturned"

\* waitInit is entered for script s: scripts.cpp:109-113
WaitInitEnter(s, todo, ctx, ok) ==
    \E oc \in {"started", "failed", "timeout"} :
      LET w   == waitInitStart(scripts[s], oc)
          ok2 == IF w[2] = "true" THEN ok \cup {s} ELSE ok
      IN  /\ scripts' = [scripts EXCEPT ![s] = w[1]]
          /\ main' = IF w[2] = "again"
                     THEN [pc |-> "waitRead", s |-> s, todo |-> todo, ctx |-> ctx,
                           split |-> FALSE, ok |-> ok]
                     ELSE AfterWait(todo, ctx, ok2)
          /\ last' = IF w[2] = "again" THEN Did("waitInit", s)
                     ELSE [op |-> Returned(todo, ctx), s |-> s, res |-> w[2],
                           fail |-> IF waitForStarted(scripts[s], oc)[2] THEN "" ELSE "start",
                           split |-> FALSE, ok |-> ok2, found |-> {}]

\* waitInit() called on one Script
WaitInit(s) ==
    /\ main.pc = "loop" /\ ~Crashed /\ s \in Registered
    /\ WaitInitEnter(s, {}, "api", {})
    /\ UNCHANGED scans

\* scripts.cpp:115-118: waitForReadyRead returns and the loop test is made
WaitRead(s) ==
    /\ main.pc = "waitRead" /\ main.s = s /\ ~Crashed
    /\ \E ub \in UBOf(scripts[s]) :
         LET r     == scripts[s]
             w     == waitInitLoop(r, ub)
             frag  == main.split \/ (CanRead(r) /\ r.stdout = <<>>)
             ok2   == IF w[2] = "true" THEN main.ok \cup {s} ELSE main.ok
         IN  /\ scripts' = [scripts EXCEPT ![s] = w[1]]
             /\ main' = IF w[2] = "again" THEN [main EXCEPT !.split = frag]
                        ELSE AfterWait(main.todo, main.ctx, ok2)
             /\ last' = IF w[2] = "again" THEN Did("waitRead", s)
                        ELSE [op |-> Returned(main.todo, main.ctx), s |-> s, res |-> w[2],
                              fail |-> IF r.initSensorAct /\ ~CanRead(r) THEN "read" ELSE "",
                              split |-> frag, ok |-> ok2, found |-> {}]
    /\ UNCHANGED scans

Init ==
    /\ \E l \in ListReplies : scripts = [s \in {"a"} |-> NewScript(Responsive(l))]
    /\ main = InLoop
    /\ scans = 0
    /\ last = Did("ctor", "a")

Next ==
    \E s \in Ids :
        \/ Update(s)
        \/ Restart(s)
        \/ ProcStarted(s)
        \/ ProcFailed(s)
        \/ ReadyRead(s)
        \/ ChildReply(s)
        \/ ChildReplyPart(s)
        \/ ChildReplyRest(s)
        \/ ChildExit(s)
        \/ WaitInit(s)
        \/ WaitRead(s)

Spec == Init /\ [][Next]_vars

\* --------------------------- one Script whose process also prints unasked
InitStray ==
    /\ scripts = [s \in {"a"} |-> NewScript(Responsive(<<"cpu">>))]
    /\ main = InLoop
    /\ scans = 0
    /\ last = Did("ctor", "a")

NextStray ==
    \E s \in Ids :
        \/ Update(s)
        \/ ProcStarted(s)
        \/ ReadyRead(s)
        \/ ChildReply(s)
        \/ ChildStray(s)
        \/ ChildExit(s)
        \/ WaitInit(s)
        \/ WaitRead(s)

SpecStray == InitStray /\ [][NextStray]_vars

\* ------------- one Script whose process answers every request and stays up
\* the event loop delivers every pending signal and the script answers every
\* request it has read
NextLive ==
    \E s \in Ids :
        \/ Update(s)
        \/ Restart(s)
        \/ ProcStarted(s)
        \/ ReadyRead(s)
        \/ ChildReply(s)

\* ReadyRead(s) can be taken
CanReadyRead(s) ==
    main.pc = "loop" /\ ~Crashed /\ s \in Registered /\ CanRead(scripts[s])

\* weak fairness of ProcStarted, ChildReply and ReadyRead; a ReadyRead step
\* always ends with nothing left to read, so its weak fairness is that
\* ReadyRead is not enabled for ever
Fairness ==
    \A s \in Ids :
        /\ WF_vars(ProcStarted(s))
        /\ WF_vars(ChildReply(s))
        /\ []<>~CanReadyRead(s)

SpecLive == Init /\ [][NextLive]_vars /\ Fairness

\* --------------------------------------------------------- ScriptsPlugin
Executables(i) == IF i = "a" THEN { Responsive(<<"cpu">>) } ELSE { Mute }

initScripts_deletesVanished(scr, found, exeOf, ub) ==
    [i \in found |->
        IF i \notin DOMAIN scr THEN NewScript(exeOf[i]) ELSE restart(scr[i], ub)]

\* ScriptsPlugin::initScripts: found is what the directory iterator yields,
\* exeOf the executable behind each path
initScripts(scr, found, exeOf, ub) ==
    [i \in (DOMAIN scr) \cup found |->
        IF i \in found
        THEN IF i \notin DOMAIN scr THEN NewScript(exeOf[i]) ELSE restart(scr[i], ub)
        ELSE scr[i]]

\* ScriptsPlugin::ScriptsPlugin up to the first waitInit
PluginCtor ==
    /\ main.pc = "ctor"
    /\ \E found \in SUBSET Ids : \E exeOf \in [found -> UNION {Executables(i) : i \in Ids}] :
          /\ \A i \in found : exeOf[i] \in Executables(i)
          /\ \E ub \in UNION {UBOf(scripts[i]) : i \in Registered} \cup {"stale"} :
                scripts' = initScripts(scripts, found, exeOf, ub)
          /\ main' = AfterWait(DOMAIN scripts', "ctor", {})
          /\ last' = [Did("initScripts", "") EXCEPT !.found = found]
    /\ UNCHANGED scans

\* ScriptsPlugin::directoryChanged up to the first waitInit
DirectoryChanged ==
    /\ main.pc = "loop" /\ ~Crashed
    /\ scans < MaxScans
    /\ \E found \in SUBSET Ids : \E exeOf \in [found -> UNION {Executables(i) : i \in Ids}] :
          /\ \A i \in found : exeOf[i] \in Executables(i)
          /\ \E ub \in UNION {UBOf(scripts[i]) : i \in Registered} \cup {"stale"} :
                scripts' = initScripts(scripts, found, exeOf, ub)
          /\ main' = AfterWait(DOMAIN scripts', "directoryChanged", {})
          /\ last' = [Did(IF DOMAIN scripts' = {} THEN "directoryChangedReturned"
                              ELSE "initScripts", "") EXCEPT !.found = found]
    /\ scans' = scans + 1

\* the waitInit loops of the constructor and of directoryChanged
WaitNext ==
    /\ main.pc = "waitAll" /\ ~Crashed
    /\ \E s \in main.todo : WaitInitEnter(s, main.todo \ {s}, main.ctx, main.ok)
    /\ UNCHANGED scans

\* ScriptsPlugin::update
PluginUpdate ==
    /\ main.pc = "loop" /\ ~Crashed
    /\ Registered # {}
    /\ scripts' = [i \in Registered |-> update(scripts[i])]
    /\ last' = Did("updateAll", "")
    /\ UNCHANGED <<main, scans>>

InitPlugin ==
    /\ scripts = [i \in {} |-> NewScript(Mute)]
    /\ main = [InLoop EXCEPT !.pc = "ctor"]
    /\ scans = 0
    /\ last = Did("none", "")

NextPlugin ==
    \/ PluginCtor
    \/ DirectoryChanged
    \/ WaitNext
    \/ PluginUpdate
    \/ \E s \in Ids :
        \/ ProcStarted(s)
        \/ ProcFailed(s)
        \/ ReadyRead(s)
        \/ ChildReply(s)
        \/ ChildReplyPart(s)
        \/ ChildReplyRest(s)
        \/ ChildExit(s)
        \/ WaitRead(s)

SpecPlugin == InitPlugin /\ [][NextPlugin]_vars

\* ================================================================ claims

\* C1: for every session the discovery-active flag and the poll-active flag
\* are never both true.
C1_MutualExclusion ==
    \A s \in Registered : ~(scripts[s].initSensorAct /\ scripts[s].updateSensorsAct)

\* C2: within one session the requests written since the last spawn exceed
\* the reply lines delivered to a routine since the last spawn by at most 1.
C2_OneOutstanding ==
    \A s \in Registered : scripts[s].outstanding <= 1

\* C3: the reply handed to a routine when it is resumed is the answer to the
\* request this same routine issued last, in the same spawn.
C3_FifoPaired ==
    \A s \in Registered :
        scripts[s].lastDelivery.to # "none"
            => scripts[s].lastDelivery.tag = scripts[s].lastDelivery.expect

\* C4: restart() during discovery leaves both flags false and no
\* continuation, spawns a new process for the same session object, and no
\* discovery request is written until that process reports Running, when a
\* fresh discovery starts by writing "?".
C4_RestartAbandons ==
    [][\A s \in Registered :
          LET r == scripts[s]  r2 == scripts'[s] IN
          /\ (r2.epoch = r.epoch + 1 /\ r.initSensorAct)
                => /\ ~r2.initSensorAct /\ ~r2.updateSensorsAct
                   /\ r2.initSensorsH.pc = "none" /\ r2.updateSensorsH.pc = "none"
                   /\ r2.state = "Starting" /\ r2.stdin = <<>> /\ r2.initLog = <<>>
                   /\ r2.listing = r.listing /\ DOMAIN scripts' = DOMAIN scripts
                   /\ Len(r2.sensors) >= Len(r.sensors)
          /\ (r.state = "Starting" /\ r2.state = "Starting") => r2.initLog = <<>>
          /\ (r.state = "Starting" /\ r2.state = "Running")
                => /\ r2.initSensorAct /\ r2.initSensorsH.pc = "list"
                   /\ r2.initLog = << <<"?">> >>
                   /\ r2.stdin = Append(r.stdin, [line |-> <<"?">>, tag |-> r2.initReq])
                   /\ r2.initReq.ep = r2.epoch
      ]_vars

C4_Witness ==
    \E s \in Registered :
        /\ scripts[s].abandoned /\ scripts[s].epoch > 0
        /\ scripts[s].state = "Running" /\ scripts[s].initSensorsH.pc = "list"

\* C5: update() on a session whose discovery or poll is active changes
\* nothing, and a poll starts only in a step that is an update() call on an
\* idle session.
C5_BusyUpdateNoOp ==
    [][\A s \in Registered :
          /\ (last'.op \in {"update", "updateBusy"} /\ last'.s = s /\ ~Idle(scripts[s]))
                => scripts' = scripts
          /\ (~scripts[s].updateSensorsAct /\ scripts'[s].updateSensorsAct)
                => (last'.op = "update" /\ last'.s = s /\ Idle(scripts[s]))
          /\ Len(scripts'[s].pollLog) > Len(scripts[s].pollLog)
                => \/ last'.op = "update" /\ last'.s = s
                   \/ last'.op \in {"readyRead", "waitRead", "waitInitReturned",
                                    "childExit", "restart"}
      ]_vars

C5_Witness ==
    /\ last.op = "updateBusy"
    /\ scripts[last.s].initSensorAct \/ scripts[last.s].updateSensorsAct

InitLogFollows(r, order) ==
    LET names == IF r.initReply = <<>> THEN <<>> ELSE split(r.initReply[1]) IN
    /\ r.initLog # <<>> => r.initLog[1] = <<"?">>
    /\ \A k \in 2..Len(r.initLog) :
          LET j == k - 2 IN
          /\ (j \div Len(order)) + 1 <= Len(names)
          /\ r.initLog[k] = names[(j \div Len(order)) + 1] \o <<TAB, order[(j % Len(order)) + 1]>>
    /\ Len(r.initLog) = r.initDelivered + (IF r.initSensorAct THEN 1 ELSE 0)

AscendingParams ==
    << "description", "initial_value", "max", "min", "name",
       "prefix", "short_name", "unit", "value", "variant_type" >>

\* C6 (as claimed): during discovery the ten metadata requests of each sensor
\* name are written in the order initial_value, name, short_name, prefix,
\* description, min, max, unit, variant_type, value, each reply awaited
\* before the next request.
C6_DeclarationOrder ==
    \A s \in Registered : InitLogFollows(scripts[s], ParamInit)

\* C6 (amended): during discovery the ten metadata requests of each sensor
\* name are written in ascending key order: description, initial_value, max,
\* min, name, prefix, short_name, unit, value, variant_type, each reply
\* awaited before the next request.
C6_AscendingOrder ==
    \A s \in Registered : InitLogFollows(scripts[s], AscendingParams)

C6_Witness ==
    \E s \in Registered : scripts[s].initDone /\ Len(scripts[s].initLog) = 21

\* C7: when the reply to "?" is the empty line no metadata request is
\* written, no descriptor is appended and the session is Idle.
C7_EmptyListing ==
    \A s \in Registered :
        scripts[s].initReply = << <<>> >>
            => /\ Len(scripts[s].initLog) = 1
               /\ Len(scripts[s].sensors) = scripts[s].sensorsAtInit
               /\ ~scripts[s].initSensorAct

PollRequests(sensors) == [i \in 1..Len(sensors) |-> sensors[i].id \o <<TAB, "value">>]

\* C8: a poll cycle that ran to completion wrote exactly one "<id>\tvalue"
\* request per descriptor of the session's sensor list, in list order, and
\* left the session Idle.
C8_PollCycle ==
    \A s \in Registered :
        scripts[s].pollDone
            => /\ scripts[s].pollLog = PollRequests(scripts[s].sensors)
               /\ Idle(scripts[s])

WaitReturns == {"waitInitReturned", "ctorReturned", "directoryChangedReturned"}

\* C9: waitInit() returns success only when the process has started and
\* discovery is not active, and returns failure when the process did not
\* start or a wait for readable output failed.
C9_WaitInit ==
    (last.op \in WaitReturns /\ last.s \in Registered)
        => /\ last.res \in {"true", "false"}
           /\ last.res = "true"
                => scripts[last.s].hasRun /\ ~scripts[last.s].initSensorAct
           /\ last.fail # "" => last.res = "false"

C9_Witness ==
    /\ last.op = "waitInitReturned" /\ last.res = "true" /\ last.split
    /\ scripts[last.s].initDone /\ Len(scripts[last.s].sensors) = 2

IdsOf(sensors) == [k \in 1..Len(sensors) |-> sensors[k].id]

\* C11: a scan keeps every registered identity; an identity the scan found
\* and that was registered is the same session restarted in place (spawned
\* once more unless the restart ended the whole process), one it did
\* not find is left exactly as it was, every identity it found and that was
\* not registered gets one new session, and no other step changes the set of
\* registered identities or spawns a process again.
C11_RegistryGrows ==
    [][/\ DOMAIN scripts \subseteq DOMAIN scripts'
       /\ IF main.pc = "ctor" \/ scans' # scans
          THEN /\ DOMAIN scripts' = DOMAIN scripts \cup last'.found
               /\ \A i \in DOMAIN scripts \cap last'.found :
                     /\ \E ub \in UB : scripts'[i] = restart(scripts[i], ub)
                     /\ Len(scripts'[i].sensors) >= Len(scripts[i].sensors)
                     /\ SubSeq(IdsOf(scripts'[i].sensors), 1, Len(scripts[i].sensors))
                            = IdsOf(scripts[i].sensors)
                     /\ scripts'[i].epoch = scripts[i].epoch + 1 \/ scripts'[i].crashed
               /\ \A i \in DOMAIN scripts \ last'.found : scripts'[i] = scripts[i]
               /\ \A i \in last'.found \ DOMAIN scripts :
                     \E e \in Executables(i) : scripts'[i] = NewScript(e)
          ELSE /\ DOMAIN scripts' = DOMAIN scripts
               /\ \A i \in DOMAIN scripts : scripts'[i].epoch = scripts[i].epoch
      ]_vars

C11_Witness ==
    /\ scans = 1 /\ last.op = "initScripts"
    /\ \E i \in Registered \ last.found : scripts[i].hasRun
    /\ \E j \in Registered \cap last.found : scripts[j].epoch = 1 /\ scripts[j].sensors # <<>>

DeclaredType(sensor) == IF sensor.variantType = "unset" THEN "QString" ELSE sensor.variantType

ZeroOf(type) == [t |-> type, s |-> <<>>, n |-> 0]

\* a step in which exactly one reply line is handed to the suspended poll
\* routine of a session that stays in the same spawn
OnePollReply(r, r2) ==
    /\ r.updateSensorsAct /\ ~r.initSensorAct /\ r.updateSensorsH.pc = "value"
    /\ r2.epoch = r.epoch
    /\ Len(r.stdout) = 1 /\ r.readBuffer = <<>> /\ r2.stdout = <<>>
    /\ r2.scriptReply = trimmed(r.stdout[1].text)

\* C12: when the reply handed to the poll routine for sensor i cannot be
\* converted to the declared type of sensor i, the value of sensor i becomes
\* the zero value of that type, the routine goes on to request sensor i+1,
\* and after the last sensor the session is Idle with one request written
\* for every descriptor of the list.
C12_CoercionFallback ==
    [][\A s \in Registered :
          LET r  == scripts[s]
              r2 == scripts'[s]
              i  == r.updateSensorsH.idx
              T  == DeclaredType(r.sensors[i])
          IN  (OnePollReply(r, r2) /\ ~convert(QVariantOfString(r2.scriptReply), T)[2])
                 => /\ ~r2.crashed
                    /\ r2.sensors[i].value = ZeroOf(T)
                    /\ IF i < Len(r.sensors)
                       THEN /\ r2.updateSensorsAct /\ r2.updateSensorsH.idx = i + 1
                            /\ r2.pollLog = Append(r.pollLog, r.sensors[i + 1].id \o <<TAB, "value">>)
                       ELSE /\ Idle(r2) /\ r2.pollDone
                            /\ r2.pollLog = PollRequests(r2.sensors)
      ]_vars

Frame(sensors) == [k \in 1..Len(sensors) |-> [id |-> sensors[k].id, variantType |-> sensors[k].variantType]]

\* C13: the step that hands the poll routine the reply for sensor i changes
\* the value of no other sensor, and no step taken while a poll cycle is
\* active changes the length or order of the sensor list or the id or
\* declared type of any descriptor.
C13_PollFrame ==
    [][\A s \in Registered :
          LET r  == scripts[s]
              r2 == scripts'[s]
              i  == r.updateSensorsH.idx
          IN  /\ OnePollReply(r, r2)
                   => /\ Len(r2.sensors) = Len(r.sensors)
                      /\ \A k \in 1..Len(r.sensors) : k # i => r2.sensors[k] = r.sensors[k]
              /\ (r.updateSensorsAct /\ r2.epoch = r.epoch)
                   => Frame(r2.sensors) = Frame(r.sensors)
      ]_vars

\* the sensor names a reply to "?" lists: its tab-separated fields, none for
\* the empty line
NameTokens(reply) == IF reply = <<>> THEN <<>> ELSE split(reply)

\* C14: once the discovery of a session that was never restarted has
\* completed, the ids of its sensor list are, in order, the names its script
\* lists in the reply to "?".
C14_IdsFollowReply ==
    \A s \in Registered :
        (scripts[s].epoch = 0 /\ scripts[s].initDone)
            => IdsOf(scripts[s].sensors) = NameTokens(scripts[s].listing)

\* C15: a session's sensor list never holds two descriptors with the same id
\* and is never longer than the list of names its script gives in the reply
\* to "?", however often the session is restarted.
C15_OneDescriptorPerId ==
    \A s \in Registered :
        LET sensors == scripts[s].sensors IN
        /\ \A j, k \in 1..Len(sensors) : j # k => sensors[j].id # sensors[k].id
        /\ Len(sensors) <= Len(NameTokens(scripts[s].listing))

\* a step in which the lines the pipe holds are read while neither routine
\* of the session is active
IdleRead(r, r2) ==
    /\ Idle(r) /\ r.stdout # <<>> /\ r2.stdout = <<>> /\ r2.epoch = r.epoch

\* C16: lines read while neither routine is active change nothing but the
\* last-reply buffer: no flag, continuation, request, descriptor or value
\* changes; an unasked line dropped this way is never handed to a routine;
\* update() on the idle session of a live process afterwards starts a poll by writing the
\* request for the first sensor, and when no other unasked line is around the
\* first reply handed to that poll is the answer to that request.
C16_StrayDiscarded ==
    [][\A s \in Registered :
          LET r  == scripts[s]
              r2 == scripts'[s]
          IN  /\ IdleRead(r, r2)
                   => /\ r2 = [r EXCEPT !.stdout = <<>>,
                                        !.scriptReply = r2.scriptReply,
                                        !.partialSeen = r2.partialSeen,
                                        !.dropped = r2.dropped,
                                        !.state = r2.state,
                                        !.stdin = r2.stdin]
                      /\ r2.stdin \in {r.stdin, <<>>}
                      /\ r2.scriptReply = trimmed(r.stdout[Len(r.stdout)].text)
                      /\ r2.dropped = r.dropped \cup
                            {r.stdout[k].tag.ep : k \in {j \in 1..Len(r.stdout) : r.stdout[j].tag.by = "stray"}}
              /\ (r2.lastDelivery.tag.by = "stray" /\ r2.epoch = r.epoch)
                   => r2.lastDelivery.tag.ep \notin r.dropped
              /\ (last'.op = "update" /\ last'.s = s /\ r.dropped # {} /\ r.sensors # <<>>
                    /\ r.state = "Running")
                   => /\ r2.updateSensorsAct /\ r2.updateSensorsH.pc = "value"
                      /\ r2.pollLog = << r.sensors[1].id \o <<TAB, "value">> >>
                      /\ r2.stdin = Append(r.stdin, [line |-> r2.pollLog[1], tag |-> r2.updReq])
              /\ (OnePollReply(r, r2) /\ r.updateSensorsH.idx = 1
                    /\ r.dropped # {} /\ r.strays = Cardinality(r.dropped))
                   => r.stdout[1].tag = r.updReq
      ]_vars

\* an unasked line was dropped by an idle session and a later poll on the
\* same process got the answer to its own request
C16_Witness ==
    \E s \in Registered :
        LET r == scripts[s]
        IN  /\ r.dropped # {} /\ r.strays = Cardinality(r.dropped)
            /\ r.state = "Running" /\ r.pollDone /\ Idle(r)
            /\ r.lastDelivery.to = "upd" /\ r.lastDelivery.tag = r.updReq
            /\ r.scriptReply # <<"stray">>

\* C17: after a scan every identity it found has a session whose process was
\* just spawned (a new session, or the registered one restarted), also when
\* the spawn of a session had failed before the scan; a step in which the spawn of one
\* session fails keeps every session registered and changes no other session.
C17_ScanNeverFails ==
    [][/\ (main.pc = "ctor" \/ scans' # scans)
            => /\ last'.found \subseteq DOMAIN scripts'
               /\ \A i \in last'.found :
                     /\ scripts'[i].state = "Starting"
                     /\ scripts'[i].epoch = IF i \in DOMAIN scripts THEN scripts[i].epoch + 1 ELSE 0
       /\ \A s \in Registered :
             (scripts[s].state = "Starting" /\ s \in DOMAIN scripts'
                /\ scripts'[s].state = "NotRunning" /\ scripts'[s].epoch = scripts[s].epoch)
                => /\ DOMAIN scripts' = DOMAIN scripts
                   /\ \A t \in Registered \ {s} : scripts'[t] = scripts[t]
      ]_vars

\* the number of times a routine was resumed in a step: every resume takes one
\* outstanding request away, every request written adds one
Resumes(r, r2) ==
    (r.outstanding - r2.outstanding)
        + (Len(r2.initLog) - Len(r.initLog)) + (Len(r2.pollLog) - Len(r.pollLog))

\* C18: a notification that finds k complete lines reads all of them, the
\* last one read being the last one that arrived; while the routine that was
\* active stays active every line resumes it once; when that routine finishes
\* within the notification the lines after it resume nothing: the last resume
\* was of that routine and the other routine is where it was.
C18_BufferedLines ==
    [][\A s \in Registered :
          LET r  == scripts[s]
              r2 == scripts'[s]
              k  == Len(r.stdout)
          IN  (k >= 1 /\ r.readBuffer = <<>> /\ r2.stdout = <<>>
                 /\ r2.epoch = r.epoch /\ ~r2.crashed)
                => /\ r2.readBuffer = <<>>
                   /\ r2.scriptReply = trimmed(r.stdout[k].text)
                   /\ Resumes(r, r2) <= k
                   /\ (r.initSensorAct /\ r2.initSensorAct) => Resumes(r, r2) = k
                   /\ (~r.initSensorAct /\ r.updateSensorsAct /\ r2.updateSensorsAct)
                         => Resumes(r, r2) = k
                   /\ (r.initSensorAct /\ ~r2.initSensorAct)
                         => /\ r2.lastDelivery.to = "init"
                            /\ r2.updateSensorsAct = r.updateSensorsAct
                            /\ r2.updateSensorsH.pc = r.updateSensorsH.pc
                            /\ r2.updateSensorsH.idx = r.updateSensorsH.idx
                            /\ r2.pollLog = r.pollLog
                   /\ (~r.initSensorAct /\ r.updateSensorsAct /\ ~r2.updateSensorsAct)
                         => /\ r2.lastDelivery.to = "upd"
                            /\ r2.initSensorsH = r.initSensorsH
                            /\ r2.initLog = r.initLog
                   /\ Idle(r) => Resumes(r, r2) = 0
      ]_vars

NoRepeat(log) == \A i, j \in 1..Len(log) : i # j => log[i] # log[j]

\* a step in which the discovery of a session finishes, in the same spawn
DiscoveryEnds(r, r2) ==
    r.initSensorAct /\ ~r2.initSensorAct /\ r2.epoch = r.epoch /\ ~r2.crashed

\* C19: with a script that answers every request, a discovery that started
\* finishes unless the session is restarted; the step in which it finishes
\* leaves the session idle after 1 + 10*N requests and as many replies for the
\* N names of the reply to "?", no request having been written twice, and an
\* empty reply leaves the display name and the declared type unset.
C19_DiscoveryCompletes ==
    /\ [][\A s \in Registered :
             LET r  == scripts[s]
                 r2 == scripts'[s]
                 N  == Len(NameTokens(r2.initReply[1]))
             IN  DiscoveryEnds(r, r2)
                   => /\ Idle(r2) /\ r2.initDone
                      /\ Len(r2.initLog) = 1 + 10 * N
                      /\ r2.initDelivered = 1 + 10 * N
                      /\ NoRepeat(r2.initLog)
                      /\ Len(r2.sensors) > Len(r.sensors) =>
                            LET new == r2.sensors[Len(r2.sensors)] IN
                            /\ r.initSensorsH.sensorParameters["name"] = <<>>
                                   => new.name = new.id
                            /\ r2.scriptReply = <<>> => new.variantType = "unset"
        ]_vars
    /\ \A s \in Ids : \A e \in 0..MaxRestarts :
          (s \in Registered /\ scripts[s].epoch = e /\ scripts[s].initSensorAct)
             ~> (s \in Registered
                   /\ (scripts[s].epoch > e
                         \/ (scripts[s].initDone /\ ~scripts[s].initSensorAct)))

\* a step in which the session reads at least one complete line of its process
Consumed(r, r2) == r.stdout # <<>> /\ Len(r2.stdout) < Len(r.stdout)

\* C20: an activity flag is cleared only in a step that reads a reply line or
\* in a restart; update() on an active session changes nothing; a process
\* that is not running is spawned again only by a restart; while a session
\* is active and no line is read, no request is written except "?" when the
\* process reports Running; a restart leaves both flags false with the
\* process starting.
C20_StuckUntilRestart ==
    [][\A s \in Registered :
          LET r  == scripts[s]
              r2 == scripts'[s]
          IN  /\ (r.initSensorAct /\ ~r2.initSensorAct)
                    => (r2.epoch = r.epoch + 1 \/ Consumed(r, r2))
              /\ (r.updateSensorsAct /\ ~r2.updateSensorsAct)
                    => (r2.epoch = r.epoch + 1 \/ Consumed(r, r2))
              /\ (~Idle(r) /\ last'.op \in {"update", "updateBusy"} /\ last'.s = s)
                    => scripts' = scripts
              /\ (r.state = "NotRunning" /\ r2.state # "NotRunning")
                    => (r2.epoch = r.epoch + 1 /\ r2.state = "Starting")
              /\ (~Idle(r) /\ ~Consumed(r, r2) /\ r2.epoch = r.epoch /\ r2.state = r.state)
                    => /\ r2.initLog = r.initLog /\ r2.pollLog = r.pollLog
                       /\ Len(r2.stdin) <= Len(r.stdin)
                       /\ r2.outstanding = r.outstanding
              /\ r2.epoch = r.epoch + 1 => (Idle(r2) /\ r2.state = "Starting")
      ]_vars

\* the process of a session has gone with a request unanswered, and update()
\* was called on the session and did nothing
C20_Witness ==
    \E s \in Registered :
        /\ last.op = "updateBusy" /\ last.s = s
        /\ scripts[s].state = "NotRunning" /\ ~Idle(scripts[s])
        /\ scripts[s].outstanding = 1 /\ scripts[s].stdout = <<>>
        /\ ~scripts[s].crashed
====
